---- MODULE Spec2Model ----
(***************************************************************************)
(* A model of nexusrpc's service-definition builder (_service.py), of its  *)
(* operation-handler binding and variance validation, and of the           *)
(* synchronous-only operation handler (handler/_operation_handler.py).     *)
(*                                                                         *)
(* Strings stand for Python strings and type objects.  "None" is Python's  *)
(* None, "" the empty string; both are falsy.  An exception is a record    *)
(* [py |-> the Python class raised, kind |-> the error kind of the         *)
(* design's taxonomy, at |-> the raise site].                              *)
(***************************************************************************)
EXTENDS Integers, Sequences, FiniteSets, TLC

VARIABLES
    handler,    \* the SyncOperationHandler object: Null or [_start, start_doc]
    trace,      \* the calls made on the sync handler so far, with their outcomes
    svc,        \* handler binding: the ServiceDefinition supplied, or Null
    members,    \* handler binding: the callable members of the handler class, by name order
    factories,  \* handler binding: the method_name -> factory map in use
    hres,       \* handler binding: outcome of the last collect / validate / synthesize
    base,       \* service build: the decorated class later classes may derive from, or Null
    result      \* service build: the class statement just decorated and its outcome, or Null

vars == <<handler, trace, svc, members, factories, hres, base, result>>

syncVars == <<handler, trace>>
bindVars == <<svc, members, factories, hres>>
buildVars == <<base, result>>

\* Python's None where an object (a record) is expected.
Null == [none |-> TRUE]

\* The parts of the state a specification leaves untouched.
IdleBind == svc = Null /\ members = <<>> /\ factories = <<>> /\ hres = Null
IdleBuild == base = Null /\ result = Null
IdleSync == handler = Null /\ trace = <<>>

\* Python truthiness of a string-or-None value.
Falsy(v) == v \in {"None", ""}

Range(s) == {s[i] : i \in DOMAIN s}

(***************************************************************************)
(* Exceptions, one per raise site.                                         *)
(***************************************************************************)
Raise(py, kind, at) == [py |-> py, kind |-> kind, at |-> at]

ErrNotAsync == Raise("RuntimeError", "ConfigurationError", "SyncOperationHandler.__init__")
ErrFetchInfo == Raise("NotImplementedError", "UnsupportedOperationError", "fetch_info")
ErrFetchResult == Raise("NotImplementedError", "UnsupportedOperationError", "fetch_result")
ErrCancel == Raise("NotImplementedError", "UnsupportedOperationError", "cancel")

(***************************************************************************)
(* Types.  A, B(A), DG(G[A]) are classes, G a generic class, GA = G[A] and *)
(* GU = G[U] parameterized aliases of it, Any is typing.Any, "None" an     *)
(* unset type.                                                             *)
(***************************************************************************)
PyClasses == {"A", "B", "G", "DG"}
Aliases == {"GA", "GU"}

\* class B(A), class DG(G[A]): the classes of c's __mro__.
Mro(c) ==
    CASE c = "B" -> {"B", "A"}
      [] c = "DG" -> {"DG", "G"}
      [] OTHER -> {c}

\* typing.get_origin
get_origin(t) == IF t \in Aliases THEN "G" ELSE "None"

\* issubclass(c1, c2): "TypeError" when c1 is no class (a typing alias).
issubclass(c1, c2) ==
    IF c1 \notin PyClasses THEN "TypeError"
    ELSE IF c2 \in Mro(c1) THEN "True" ELSE "False"

is_subtype(type1, type2) ==
    IF type1 = type2 THEN "True"
    ELSE issubclass(type1, IF Falsy(get_origin(type2)) THEN type2 ELSE get_origin(type2))

(***************************************************************************)
(* Operations and service definitions (by value).                          *)
(***************************************************************************)
Op(name, method_name, input_type, output_type) ==
    [name |-> name, method_name |-> method_name,
     input_type |-> input_type, output_type |-> output_type]

\* The code-point order of the names in use, for sorted().
NameOrder == <<"", "a", "b", "c">>
Rank(s) == CHOOSE i \in DOMAIN NameOrder : NameOrder[i] = s

\* sorted() forgotten: the names in descending order.
RECURSIVE Unsorted(_)
Unsorted(S) ==
    IF S = {} THEN <<>>
    ELSE LET m == CHOOSE x \in S : \A y \in S : Rank(x) >= Rank(y)
         IN <<m>> \o Unsorted(S \ {m})

RECURSIVE sorted(_)
sorted(S) ==
    IF S = {} THEN <<>>
    ELSE LET m == CHOOSE x \in S : \A y \in S : Rank(x) <= Rank(y)
         IN <<m>> \o sorted(S \ {m})

\* Operation._validation_errors without the checks of the types.
OpValidationErrorsNamesOnly(op) ==
    (IF Falsy(op.name) THEN <<"no name">> ELSE <<>>)
    \o (IF Falsy(op.method_name) THEN <<"no method name">> ELSE <<>>)

\* Operation._validation_errors
OpValidationErrors(op) ==
    (IF Falsy(op.name) THEN <<"no name">> ELSE <<>>)
    \o (IF Falsy(op.method_name) THEN <<"no method name">> ELSE <<>>)
    \o (IF Falsy(op.input_type) THEN <<"no input type">> ELSE <<>>)
    \o (IF Falsy(op.output_type) THEN <<"no output type">> ELSE <<>>)

\* ServiceDefinition._validation_errors over the operations' values, in the
\* mapping's order.
RECURSIVE OpsValidationErrors(_, _, _)
OpsValidationErrors(ops, i, seen) ==
    IF i > Len(ops) THEN <<>>
    ELSE (IF ops[i].method_name \in seen THEN <<"method name not unique">> ELSE <<>>)
         \o OpValidationErrors(ops[i])
         \o OpsValidationErrors(ops, i + 1, seen \cup {ops[i].method_name})

\* The validation stopping at the first problem.
FirstValidationError(name, ops) ==
    IF Falsy(name) THEN <<"no service name">>
    ELSE IF OpsValidationErrors(ops, 1, {}) = <<>> THEN <<>>
    ELSE <<OpsValidationErrors(ops, 1, {})[1]>>

DefnValidationErrors(name, ops) ==
    (IF Falsy(name) THEN <<"no service name">> ELSE <<>>)
    \o OpsValidationErrors(ops, 1, {})

ErrDefinition(errors) ==
    [py |-> "ValueError", kind |-> "DefinitionError",
     at |-> "ServiceDefinition.__post_init__", errors |-> errors]

\* ServiceDefinition(name=..., operations=...): `entries` is the mapping as a
\* dict, a sequence of [key, value] in insertion order.
NewServiceDefinition(name, entries) ==
    LET errors == DefnValidationErrors(name, [i \in DOMAIN entries |-> entries[i].value])
    IN IF errors # <<>>
       THEN [ok |-> FALSE, error |-> ErrDefinition(errors)]
       ELSE [ok |-> TRUE, defn |-> [name |-> name, operations |-> entries]]

\* defn.operations.values()
OpsOf(defn) == [i \in DOMAIN defn.operations |-> defn.operations[i].value]

(***************************************************************************)
(* dict helpers: a dict is a sequence of [key, value] entries in insertion *)
(* order.                                                                  *)
(***************************************************************************)
Keys(d) == {d[i].key : i \in DOMAIN d}
Get(d, k) == d[CHOOSE i \in DOMAIN d : d[i].key = k].value
DictSet(d, k, v) ==
    IF k \in Keys(d)
    THEN [i \in DOMAIN d |-> IF d[i].key = k THEN [key |-> k, value |-> v] ELSE d[i]]
    ELSE Append(d, [key |-> k, value |-> v])
DictPop(d, k) == SelectSeq(d, LAMBDA e : e.key # k)

(***************************************************************************)
(* Handler discovery and validation.                                       *)
(***************************************************************************)
ErrDuplicateHandler == Raise("RuntimeError", "DefinitionError", "collect: defined multiple times")
ErrNotInDefinition(names) ==
    [py |-> "TypeError", kind |-> "ConfigurationError",
     at |-> "collect: not in service definition", names |-> names]
ErrAssertMethodName == Raise("AssertionError", "AssertionError", "collect: method name is None")
\* validate's errors name the definition operation they were raised for.
RaiseFor(py, kind, at, method_name) ==
    [py |-> py, kind |-> kind, at |-> at, op |-> method_name]
ErrDefnNoMethodName(m) == RaiseFor("ValueError", "DefinitionError", "validate: no method name", m)
ErrMissing(m) == RaiseFor("TypeError", "MissingImplementationError", "validate: not implemented", m)
ErrForgot(m) == RaiseFor("ValueError", "ConfigurationError", "validate: forgot to decorate", m)
ErrRename(m) == RaiseFor("TypeError", "TypeMismatchError", "validate: name overridden", m)
ErrInputType(m) == RaiseFor("TypeError", "TypeMismatchError", "validate: input type", m)
ErrOutputType(m) == RaiseFor("TypeError", "TypeMismatchError", "validate: output type", m)
ErrIssubclass(m) == RaiseFor("TypeError", "TypeError", "issubclass: arg 1 must be a class", m)
ErrSynthForgot == Raise("ValueError", "ConfigurationError", "synthesize: forgot to decorate")
ErrExtra(names) ==
    [py |-> "ValueError", kind |-> "ConfigurationError",
     at |-> "validate: implements more operations", names |-> names]

Ok == [ok |-> TRUE]
Fail(e) == [ok |-> FALSE, error |-> e]

\* get_operation_factory(obj): <<factory, op_defn>>, or <<Null, Null>>.
get_operation_factory(obj) ==
    LET factory == IF obj.op # Null THEN obj ELSE obj.fac
        op_defn == IF obj.op # Null THEN obj.op
                   ELSE IF factory # Null THEN factory.op ELSE Null
    IN IF op_defn = Null THEN <<Null, Null>> ELSE <<factory, op_defn>>

\* The loop of collect_operation_handler_factories_by_method_name over the
\* members from the i-th on.
RECURSIVE CollectLoop(_, _, _, _, _)
CollectLoop(ms, i, service, seen, facs) ==
    IF i > Len(ms) THEN [ok |-> TRUE, factories |-> facs]
    ELSE
      LET got == get_operation_factory(ms[i])
          factory == got[1]
          op_defn == got[2]
          service_method_names ==
              IF service = Null THEN {}
              ELSE {op.method_name : op \in {o \in Range(OpsOf(service)) : o.method_name # "None"}}
      IN IF factory = Null \/ op_defn = Null
         THEN CollectLoop(ms, i + 1, service, seen, facs)
         ELSE IF op_defn.name \in seen
         THEN Fail(ErrDuplicateHandler)
         ELSE IF service # Null /\ op_defn.method_name \notin service_method_names
         THEN Fail(ErrNotInDefinition(sorted(service_method_names)))
         ELSE IF Falsy(op_defn.method_name)
         THEN Fail(ErrAssertMethodName)
         ELSE CollectLoop(ms, i + 1, service, seen \cup {op_defn.name},
                          DictSet(facs, op_defn.method_name, factory))

\* collect that does not look at the definition.
CollectIgnoringDefinition(user_service_cls, service) ==
    CollectLoop(user_service_cls, 1, Null, {}, <<>>)

collect_operation_handler_factories_by_method_name(user_service_cls, service) ==
    CollectLoop(user_service_cls, 1, service, {}, <<>>)

\* The input check of validate: "ok", "mismatch" or "TypeError".
InputCheck(method_op_defn, op_defn) ==
    IF /\ method_op_defn.input_type # "None"
       /\ op_defn.input_type # "None"
       /\ "Any" \notin {method_op_defn.input_type, op_defn.input_type}
       /\ op_defn.input_type # method_op_defn.input_type
    THEN LET r == is_subtype(op_defn.input_type, method_op_defn.input_type)
         IN IF r = "True" THEN "ok" ELSE IF r = "False" THEN "mismatch" ELSE r
    ELSE "ok"

\* The output check of validate.
OutputCheck(method_op_defn, op_defn) ==
    IF /\ method_op_defn.output_type # "None"
       /\ op_defn.output_type # "None"
       /\ "Any" \notin {method_op_defn.output_type, op_defn.output_type}
    THEN LET r == is_subtype(method_op_defn.output_type, op_defn.output_type)
         IN IF r = "True" THEN "ok" ELSE IF r = "False" THEN "mismatch" ELSE r
    ELSE "ok"

\* A missing method reported as an undecorated one.
MissingCheckWrongError(user_methods, op_defn) ==
    IF op_defn.method_name \notin Keys(user_methods)
    THEN Fail(ErrForgot(op_defn.method_name)) ELSE Ok

\* method = user_methods.pop(op_defn.method_name, None); if not method: raise
MissingCheck(user_methods, op_defn) ==
    IF op_defn.method_name \notin Keys(user_methods)
    THEN Fail(ErrMissing(op_defn.method_name)) ELSE Ok

\* The checks of one definition operation without the check of the name.
MethodChecksAnyName(method, op_defn) ==
    IF get_operation_factory(method)[2] = Null THEN Fail(ErrForgot(op_defn.method_name))
    ELSE IF InputCheck(get_operation_factory(method)[2], op_defn) = "mismatch"
    THEN Fail(ErrInputType(op_defn.method_name))
    ELSE IF OutputCheck(get_operation_factory(method)[2], op_defn) = "mismatch"
    THEN Fail(ErrOutputType(op_defn.method_name))
    ELSE Ok

\* The checks of one definition operation against the method found for it.
MethodChecks(method, op_defn) ==
    LET method_op_defn == get_operation_factory(method)[2]
        m == op_defn.method_name
    IN IF method_op_defn = Null THEN Fail(ErrForgot(m))
       ELSE IF method_op_defn.name \notin {method_op_defn.method_name, op_defn.name}
       THEN Fail(ErrRename(m))
       ELSE IF InputCheck(method_op_defn, op_defn) = "mismatch" THEN Fail(ErrInputType(m))
       ELSE IF InputCheck(method_op_defn, op_defn) = "TypeError" THEN Fail(ErrIssubclass(m))
       ELSE IF OutputCheck(method_op_defn, op_defn) = "mismatch" THEN Fail(ErrOutputType(m))
       ELSE IF OutputCheck(method_op_defn, op_defn) = "TypeError" THEN Fail(ErrIssubclass(m))
       ELSE Ok

\* The loop of validate_operation_handler_methods over the definition's
\* operations from the i-th on; `user_methods` is the working copy of the map.
RECURSIVE ValidateLoop(_, _, _)
ValidateLoop(ops, i, user_methods) ==
    IF i > Len(ops)
    THEN IF user_methods # <<>> THEN Fail(ErrExtra(sorted(Keys(user_methods)))) ELSE Ok
    ELSE
      LET op_defn == ops[i] IN
      IF Falsy(op_defn.method_name) THEN Fail(ErrDefnNoMethodName(op_defn.method_name))
      ELSE IF ~MissingCheck(user_methods, op_defn).ok THEN MissingCheck(user_methods, op_defn)
      ELSE
        LET r == MethodChecks(Get(user_methods, op_defn.method_name), op_defn)
        IN IF ~r.ok THEN r
           ELSE ValidateLoop(ops, i + 1, DictPop(user_methods, op_defn.method_name))

\* validate looking only at the entries the definition has a method name for.
ValidateMatchedOnly(user_methods_by_method_name, service_definition) ==
    ValidateLoop(OpsOf(service_definition), 1,
                 SelectSeq(user_methods_by_method_name,
                           LAMBDA e : \E o \in Range(OpsOf(service_definition)) :
                                        o.method_name = e.key))

validate_operation_handler_methods(user_methods_by_method_name, service_definition) ==
    ValidateLoop(OpsOf(service_definition), 1, user_methods_by_method_name)

\* The loop of service_definition_from_operation_handler_methods over the
\* items of user_methods from the i-th on.
RECURSIVE SynthLoop(_, _, _)
SynthLoop(user_methods, i, op_defns) ==
    IF i > Len(user_methods) THEN [ok |-> TRUE, op_defns |-> op_defns]
    ELSE LET op_defn == get_operation_factory(user_methods[i].value)[2]
         IN IF op_defn = Null THEN Fail(ErrSynthForgot)
            ELSE SynthLoop(user_methods, i + 1, DictSet(op_defns, op_defn.name, op_defn))

\* synthesize naming the definition after the handler instead.
SynthesizeUnderHandlerName(service_name, user_methods) ==
    LET r == SynthLoop(user_methods, 1, <<>>)
    IN IF r.ok THEN NewServiceDefinition("Handler", r.op_defns) ELSE r

\* synthesize naming each operation of the definition after its method.
SynthesizeNamedByMethod(service_name, user_methods) ==
    IF \E i \in DOMAIN user_methods : get_operation_factory(user_methods[i].value)[2] = Null
    THEN Fail(ErrSynthForgot)
    ELSE NewServiceDefinition(
             service_name,
             [i \in DOMAIN user_methods |->
                [key |-> user_methods[i].key,
                 value |-> [get_operation_factory(user_methods[i].value)[2]
                              EXCEPT !.name = user_methods[i].key]]])

service_definition_from_operation_handler_methods(service_name, user_methods) ==
    LET r == SynthLoop(user_methods, 1, <<>>)
    IN IF r.ok THEN NewServiceDefinition(service_name, r.op_defns) ELSE r

(***************************************************************************)
(* Handler binding as a state machine: a handler class with its members    *)
(* exists from the start; a definition is constructed, the factories are   *)
(* collected, and the map is validated or a definition synthesized.        *)
(***************************************************************************)
MaxMembers == 2
MaxDefOps == 2

BindNames == {"a", "b", "c"}
BindMethods == {"a", "b"}
ServiceNames == {"S"}

\* The attribute names of a handler class's members, in getmembers' order.
MemberAttrs == <<"a", "b", "c">>

\* The Operation a decorator can have attached to the method `id`: named as
\* the method or "c", with the method's name as method_name or none.
MemberOps(id) == {Op(n, m, "A", "A") : n \in {id, "c"}, m \in {id, "None"}}

\* A callable member: decorated (it carries the Operation), a start method
\* whose __nexus_operation_factory__ is a decorated factory, or plain.
Decorated(id, op) == [id |-> id, op |-> op, fac |-> Null]
ViaFactory(id, op) == [id |-> id, op |-> Null, fac |-> Decorated(id, op)]
Plain(id) == [id |-> id, op |-> Null, fac |-> Null]

MemberFns(id) ==
    {Decorated(id, op) : op \in MemberOps(id)}
    \cup {ViaFactory(id, Op(id, id, "A", "A")), Plain(id)}

MemberSeqs ==
    UNION {
      {[i \in 1..n |-> [key |-> MemberAttrs[i], value |-> f[i]]] :
           f \in {g \in [1..n -> UNION {MemberFns(MemberAttrs[j]) : j \in 1..n}] :
                     \A i \in 1..n : g[i] \in MemberFns(MemberAttrs[i])}}
      : n \in 0..MaxMembers}

\* The mappings handed to ServiceDefinition(...): any values, under the keys
\* "a", "b", "c" in this order (only the values are read).
DefnKeys == <<"a", "b", "c">>
DefnEntryValues ==
    {Op(n, m, "A", "A") : n \in BindNames, m \in BindMethods \cup {"None"}}
DefnEntries ==
    UNION {
      {[i \in 1..n |-> [key |-> DefnKeys[i], value |-> v[i]]] :
           v \in [1..n -> DefnEntryValues]}
      : n \in 0..MaxDefOps}

InitBind ==
    /\ IdleSync /\ IdleBuild
    /\ svc = Null /\ factories = <<>> /\ hres = Null
    /\ members \in MemberSeqs

Stage == IF hres = Null THEN "start" ELSE hres.call
Succeeded == hres # Null /\ hres.result.ok

\* ServiceDefinition(name=..., operations=...)
Define ==
    /\ Stage = "start"
    /\ \E name \in ServiceNames, entries \in DefnEntries :
         LET r == NewServiceDefinition(name, entries) IN
         /\ svc' = IF r.ok THEN r.defn ELSE Null
         /\ hres' = [call |-> "ServiceDefinition", name |-> name, entries |-> entries,
                     result |-> r]
    /\ UNCHANGED <<members, factories, syncVars, buildVars>>

\* collect_operation_handler_factories_by_method_name(cls, service), with the
\* definition constructed before or with None.
Collect ==
    /\ \/ Stage = "start"
       \/ Stage = "ServiceDefinition" /\ Succeeded
    /\ \E service \in {svc, Null} :
         LET r == collect_operation_handler_factories_by_method_name(
                      [i \in DOMAIN members |-> members[i].value], service) IN
         /\ factories' = IF r.ok THEN r.factories ELSE <<>>
         /\ hres' = [call |-> "collect", service |-> service, result |-> r]
    /\ UNCHANGED <<svc, members, syncVars, buildVars>>

\* The maps validate and synthesize are called with: the one collected, or
\* the handler class's callables by attribute name.
UserMethods ==
    IF Stage = "collect" /\ Succeeded THEN {factories}
    ELSE IF Stage \in {"start", "ServiceDefinition"} THEN {members}
    ELSE {}

\* validate_operation_handler_methods(cls, user_methods, svc)
Validate ==
    /\ svc # Null
    /\ \E user_methods \in UserMethods :
         /\ hres' = [call |-> "validate", user_methods |-> user_methods,
                     result |-> validate_operation_handler_methods(user_methods, svc)]
    /\ UNCHANGED <<svc, members, factories, syncVars, buildVars>>

\* service_definition_from_operation_handler_methods(name, user_methods)
Synthesize ==
    /\ \E service_name \in ServiceNames, user_methods \in UserMethods :
         /\ hres' = [call |-> "synthesize", service_name |-> service_name,
                     user_methods |-> user_methods,
                     result |-> service_definition_from_operation_handler_methods(
                                    service_name, user_methods)]
    /\ UNCHANGED <<svc, members, factories, syncVars, buildVars>>

\* validate_operation_handler_methods(cls, user_methods, service) with the
\* definition just synthesized from user_methods.
ValidateSynthesized ==
    /\ Stage = "synthesize"
    /\ Succeeded
    /\ hres' = [call |-> "validate synthesized", user_methods |-> hres.user_methods,
                service |-> hres.result.defn,
                result |-> validate_operation_handler_methods(
                               hres.user_methods, hres.result.defn)]
    /\ UNCHANGED <<svc, members, factories, syncVars, buildVars>>

NextBind == Define \/ Collect \/ Validate \/ Synthesize \/ ValidateSynthesized
SpecBind == InitBind /\ [][NextBind]_vars

(***************************************************************************)
(* Handler classes whose decorated methods carry any descriptor: a method  *)
(* name that is not the attribute's (a decorated function made elsewhere   *)
(* and assigned in the class body), types set or not.  A definition with   *)
(* complete operations exists beforehand, or none does.                    *)
(***************************************************************************)
HandlerOps(id) ==
    {Op(n, m, i, o) : n \in {id, "c"}, m \in BindMethods \cup {"None"},
                      i \in {"A", "None"}, o \in {"A", "None"}}
HandlerFns(id) ==
    {Decorated(id, op) : op \in HandlerOps(id)}
    \cup {ViaFactory(id, Op(id, id, "A", "A")), Plain(id)}
HandlerSeqs ==
    UNION {
      {[i \in 1..n |-> [key |-> MemberAttrs[i], value |-> f[i]]] :
           f \in {g \in [1..n -> UNION {HandlerFns(MemberAttrs[j]) : j \in 1..n}] :
                     \A i \in 1..n : g[i] \in HandlerFns(MemberAttrs[i])}}
      : n \in 0..MaxMembers}
HandlerDefns ==
    {NewServiceDefinition("S", <<[key |-> "a", value |-> Op("a", "a", "A", "A")]>>).defn,
     NewServiceDefinition("S", <<[key |-> "a", value |-> Op("a", "a", "A", "A")],
                                 [key |-> "b", value |-> Op("c", "b", "A", "A")]>>).defn}

InitHandler ==
    /\ IdleSync /\ IdleBuild
    /\ factories = <<>> /\ hres = Null
    /\ svc \in {Null} \cup HandlerDefns
    /\ members \in HandlerSeqs

NextHandler == Collect \/ Validate \/ Synthesize \/ ValidateSynthesized
SpecHandler == InitHandler /\ [][NextHandler]_vars

(***************************************************************************)
(* Variance: one definition operation and one decorated handler method     *)
(* under the same method name, over every pair of types.                   *)
(***************************************************************************)
DefnTypes == {"A", "B", "DG", "GA", "GU", "Any"}
HandlerTypes == DefnTypes \cup {"None"}

InitVariance ==
    /\ IdleSync /\ IdleBuild
    /\ factories = <<>> /\ hres = Null
    /\ \E i \in DefnTypes, o \in DefnTypes :
         svc = NewServiceDefinition("S", <<[key |-> "a", value |-> Op("a", "a", i, o)]>>).defn
    /\ \E i \in HandlerTypes, o \in HandlerTypes :
         members = <<[key |-> "a", value |-> Decorated("a", Op("a", "a", i, o))]>>

NextVariance == Collect \/ Validate
SpecVariance == InitVariance /\ [][NextVariance]_vars

(***************************************************************************)
(* The synchronous-only handler.                                           *)
(***************************************************************************)
MaxCalls == 3
MaxPartial == 1

Ctxs == {"ctx1"}
Inputs == {"world", "there"}
Tokens == {"t1", "t2"}
Values == {"hello world", "hello there"}
UserErrors == {"boom"}

\* What a callable handed to the constructor can be: a target wrapped in
\* functools.partial a number of times.
Targets == {"async def", "def", "async __call__", "def __call__", "not callable"}
Docs == {"None", "user doc"}
Callables == [partial : 0..MaxPartial, target : Targets, doc : Docs]

\* What one await of the wrapped function can do: return a value or raise.
WrappedOutcomes ==
    [ok : {TRUE}, value : Values] \cup [ok : {FALSE}, error : UserErrors]

RECURSIVE Unwrap(_)
Unwrap(obj) ==
    IF obj.partial > 0 THEN Unwrap([obj EXCEPT !.partial = @ - 1]) ELSE obj

is_async_callable(obj) ==
    LET o == Unwrap(obj) IN
    \/ o.target = "async def"
    \/ o.target = "async __call__"

\* start.__doc__: a functools.partial object carries partial's own docstring.
DocOf(obj) == IF obj.partial > 0 THEN "partial doc" ELSE obj.doc

\* SyncOperationHandler(start): the new object, or the exception.  A truthy
\* start.__doc__ is copied onto the class's start function; the model keeps
\* that docstring with the object.
SyncInit(start) ==
    IF ~is_async_callable(start)
    THEN [ok |-> FALSE, error |-> ErrNotAsync]
    ELSE [ok |-> TRUE,
          self |-> [_start |-> start,
                    start_doc |-> IF Falsy(DocOf(start)) THEN "class doc"
                                  ELSE DocOf(start)]]

\* A method call's effect: the object afterwards and what the caller gets.
Returned(self, v) == [self |-> self, raised |-> FALSE, value |-> v]
Raised(self, e) == [self |-> self, raised |-> TRUE, error |-> e]

\* start handing out an operation token for one of the inputs.
SyncStartAsync(self, ctx, input, w) ==
    IF ~w.ok THEN Raised(self, w.error)
    ELSE IF input = "there" THEN Returned(self, [variant |-> "Async", token |-> "t1"])
    ELSE Returned(self, [variant |-> "Sync", value |-> w.value])

\* fetch_info answering for one token once the handler exists.
SyncFetchInfoAnswers(self, ctx, token) ==
    IF token = "t2" THEN Returned(self, "running") ELSE Raised(self, ErrFetchInfo)

\* StartOperationResultSync(await self._start(ctx, input)); `w` is what the
\* await of the wrapped function did.
SyncStart(self, ctx, input, w) ==
    IF w.ok
    THEN Returned(self, [variant |-> "Sync", value |-> w.value])
    ELSE Raised(self, w.error)

SyncFetchInfo(self, ctx, token) == Raised(self, ErrFetchInfo)
SyncFetchResult(self, ctx, token) == Raised(self, ErrFetchResult)
SyncCancel(self, ctx, token) == Raised(self, ErrCancel)

Constructed == handler # Null

Construct ==
    /\ handler = Null
    /\ \E start \in Callables :
         LET r == SyncInit(start) IN
         /\ handler' = IF r.ok THEN r.self ELSE Null
         /\ trace' = Append(trace, [call |-> "__init__", arg |-> start, before |-> Null,
                                    effect |-> r])
    /\ Len(trace) < MaxCalls
    /\ UNCHANGED <<bindVars, buildVars>>

Start ==
    /\ Constructed
    /\ Len(trace) < MaxCalls
    /\ \E ctx \in Ctxs, input \in Inputs, w \in WrappedOutcomes :
         LET r == SyncStart(handler, ctx, input, w) IN
         /\ handler' = r.self
         /\ trace' = Append(trace, [call |-> "start", ctx |-> ctx, input |-> input,
                                    wrapped |-> w, before |-> handler, effect |-> r])
    /\ UNCHANGED <<bindVars, buildVars>>

FetchInfo ==
    /\ Constructed
    /\ Len(trace) < MaxCalls
    /\ \E ctx \in Ctxs, token \in Tokens :
         LET r == SyncFetchInfo(handler, ctx, token) IN
         /\ handler' = r.self
         /\ trace' = Append(trace, [call |-> "fetch_info", ctx |-> ctx, token |-> token,
                                    before |-> handler, effect |-> r])
    /\ UNCHANGED <<bindVars, buildVars>>

FetchResult ==
    /\ Constructed
    /\ Len(trace) < MaxCalls
    /\ \E ctx \in Ctxs, token \in Tokens :
         LET r == SyncFetchResult(handler, ctx, token) IN
         /\ handler' = r.self
         /\ trace' = Append(trace, [call |-> "fetch_result", ctx |-> ctx, token |-> token,
                                    before |-> handler, effect |-> r])
    /\ UNCHANGED <<bindVars, buildVars>>

Cancel ==
    /\ Constructed
    /\ Len(trace) < MaxCalls
    /\ \E ctx \in Ctxs, token \in Tokens :
         LET r == SyncCancel(handler, ctx, token) IN
         /\ handler' = r.self
         /\ trace' = Append(trace, [call |-> "cancel", ctx |-> ctx, token |-> token,
                                    before |-> handler, effect |-> r])
    /\ UNCHANGED <<bindVars, buildVars>>

InitSync == IdleSync /\ IdleBind /\ IdleBuild
NextSync == Construct \/ Start \/ FetchInfo \/ FetchResult \/ Cancel
SpecSync == InitSync /\ [][NextSync]_vars

(***************************************************************************)
(* Building a definition from a decorated class.  A class statement is its *)
(* fields: each has a value (none, a new Operation(...), an Operation      *)
(* object of the base class's definition, or the alias Operation[I, O]     *)
(* assigned with '=') and an annotation (none, the bare class Operation,   *)
(* or Operation[I, O]).  Operation objects are mutable and shared, so the  *)
(* builder works on a store of objects by reference: [own |-> field] for   *)
(* an object created by this class statement, [inh |-> name] for an object *)
(* of the base class's definition.                                         *)
(***************************************************************************)
MaxBaseDepth == 1

ErrEmptyServiceName == Raise("ValueError", "DefinitionError", "service: name must not be empty")
ErrAliasValue == Raise("TypeError", "DefinitionError", "collect: '=' instead of ':'")
ErrTypeParams == Raise("TypeError", "DefinitionError", "collect: type parameters")
ErrInputMismatch == Raise("ValueError", "TypeMismatchError", "collect: input_type must match")
ErrOutputMismatch == Raise("ValueError", "TypeMismatchError", "collect: output_type must match")
ErrMethodName == Raise("ValueError", "DefinitionError", "collect: method_name must match attribute")
ErrDuplicateName == Raise("ValueError", "DefinitionError", "collect: defined multiple times")
ErrInheritedMethodName ==
    Raise("ValueError", "DefinitionError", "from_class: method name also occurs in parent")
ErrInheritedName ==
    Raise("ValueError", "DefinitionError", "from_class: name also occurs in parent")

\* The field names of a class body, in __dict__ order, and the attribute
\* names a class can have.
FieldKeys == <<"a", "b">>
BuildNames == {"a", "b", "c"}
ClassName == "Cls"

NoValue == Null
NoAnnotation == Null
AliasValue == [alias |-> TRUE]
IsInstance(v) == v # NoValue /\ v # AliasValue

\* The object a field's value is.
RefOf(key, v) == IF "new" \in DOMAIN v THEN [own |-> key] ELSE [inh |-> v.reuse]

\* The objects of the base class's definition, by reference.
StoreOf(cls) ==
    IF cls = Null THEN <<>>
    ELSE [i \in DOMAIN cls.defn.operations |->
            [key |-> [inh |-> cls.defn.operations[i].key],
             value |-> cls.defn.operations[i].value]]

\* The first loop of _collect_operations, over __dict__ from the i-th field.
RECURSIVE CollectInstances(_, _, _, _)
CollectInstances(fields, i, operations, store) ==
    IF i > Len(FieldKeys) THEN [ok |-> TRUE, operations |-> operations, store |-> store]
    ELSE LET k == FieldKeys[i]
             v == fields[k].value
         IN IF v = AliasValue THEN [ok |-> FALSE, error |-> ErrAliasValue, store |-> store]
            ELSE IF v = NoValue THEN CollectInstances(fields, i + 1, operations, store)
            ELSE CollectInstances(fields, i + 1, DictSet(operations, k, RefOf(k, v)),
                     IF "new" \in DOMAIN v THEN DictSet(store, [own |-> k], v.new) ELSE store)

\* if op.method_name is None: op.method_name = key
DefaultMethodName(op, key) ==
    IF op.method_name = "None" THEN [op EXCEPT !.method_name = key] ELSE op

\* The input type of the annotation set on the instance whatever it had.
EnrichInputOverrides(op, input_type) == [op EXCEPT !.input_type = input_type]

\* if not op.input_type: op.input_type = input_type, and the same for the
\* output type.
EnrichInput(op, input_type) ==
    IF Falsy(op.input_type) THEN [op EXCEPT !.input_type = input_type] ELSE op
EnrichOutput(op, output_type) ==
    IF Falsy(op.output_type) THEN [op EXCEPT !.output_type = output_type] ELSE op

\* The second loop's branch for `key: Operation[I, O] = Operation(...)`;
\* `op` is the object after its input type was set.
CollectAnnotatedInstance(key, args, operations, store, ref, op) ==
    IF op.input_type # args[1]
    THEN [ok |-> FALSE, error |-> ErrInputMismatch, store |-> store]
    ELSE IF EnrichOutput(op, args[2]).output_type # args[2]
    THEN [ok |-> FALSE, error |-> ErrOutputMismatch, store |-> DictSet(store, ref, op)]
    ELSE [ok |-> TRUE, operations |-> operations,
          store |-> DictSet(store, ref, DefaultMethodName(EnrichOutput(op, args[2]), key))]

\* The instance-only branch setting the method name whatever it was.
CollectInstanceOverwrites(key, operations, store, ref, op) ==
    [ok |-> TRUE, operations |-> operations,
     store |-> DictSet(store, ref, [op EXCEPT !.method_name = key])]

\* The second loop's branch for `key = Operation(...)`.
CollectInstance(key, operations, store, ref, op) ==
    IF Falsy(op.method_name)
    THEN [ok |-> TRUE, operations |-> operations,
          store |-> DictSet(store, ref, [op EXCEPT !.method_name = key])]
    ELSE IF op.method_name # key
    THEN [ok |-> FALSE, error |-> ErrMethodName, store |-> store]
    ELSE [ok |-> TRUE, operations |-> operations, store |-> store]

\* The operation of an annotation with its type parameters exchanged.
AnnotatedOperationSwapped(key, args) == Op(key, key, args[2], args[1])

\* Operation(name=key, method_name=key, input_type=..., output_type=...) for
\* `key: Operation[I, O]`.
AnnotatedOperation(key, args) == Op(key, key, args[1], args[2])

\* One iteration of the second loop of _collect_operations, for field `key`.
CollectField(fields, key, operations, store) ==
    IF fields[key].ann # NoAnnotation
    THEN IF Len(fields[key].ann.args) # 2
         THEN [ok |-> FALSE, error |-> ErrTypeParams, store |-> store]
         ELSE IF key \notin Keys(operations)
         THEN [ok |-> TRUE,
               operations |-> DictSet(operations, key, [own |-> key]),
               store |-> DictSet(store, [own |-> key],
                                 AnnotatedOperation(key, fields[key].ann.args))]
         ELSE CollectAnnotatedInstance(key, fields[key].ann.args, operations, store,
                  Get(operations, key),
                  EnrichInput(Get(store, Get(operations, key)), fields[key].ann.args[1]))
    ELSE CollectInstance(key, operations, store, Get(operations, key),
                         Get(store, Get(operations, key)))

\* The second loop, over the union of the field names in the set's iteration
\* order `order`, from its i-th element; `c` is the state of the loop so far.
RECURSIVE CollectFields(_, _, _, _)
CollectFields(fields, order, i, c) ==
    IF i > Len(order) \/ ~c.ok THEN c
    ELSE CollectFields(fields, order, i + 1,
                       CollectField(fields, order[i], c.operations, c.store))

\* The last loop without its check: a later operation replaces an earlier
\* one of the same name.
RECURSIVE OperationsByNameLastWins(_, _, _, _)
OperationsByNameLastWins(operations, i, store, operations_by_name) ==
    IF i > Len(operations) THEN [ok |-> TRUE, operations_by_name |-> operations_by_name]
    ELSE OperationsByNameLastWins(operations, i + 1, store,
             DictSet(operations_by_name, Get(store, operations[i].value).name,
                     operations[i].value))

\* The last loop: operations_by_name, from the i-th of operations.values().
RECURSIVE OperationsByName(_, _, _, _)
OperationsByName(operations, i, store, operations_by_name) ==
    IF i > Len(operations) THEN [ok |-> TRUE, operations_by_name |-> operations_by_name]
    ELSE IF Get(store, operations[i].value).name \in Keys(operations_by_name)
    THEN Fail(ErrDuplicateName)
    ELSE OperationsByName(operations, i + 1, store,
             DictSet(operations_by_name, Get(store, operations[i].value).name,
                     operations[i].value))

\* The names operations.keys() | annotations.keys() of a class body, in the
\* set's iteration order.
DeclaredKeys(fields, order) ==
    SelectSeq(order, LAMBDA k : IsInstance(fields[k].value) \/ fields[k].ann # NoAnnotation)

\* What _collect_operations returns: `c` is the state after the second loop,
\* `by_name` the outcome of the last.
Collected(c, by_name) ==
    IF ~by_name.ok THEN [ok |-> FALSE, error |-> by_name.error, store |-> c.store]
    ELSE [ok |-> TRUE, operations |-> by_name.operations_by_name,
          fields |-> c.operations, store |-> c.store]

\* _collect_operations after its second loop.
CollectByName(c) ==
    IF ~c.ok THEN c
    ELSE Collected(c, OperationsByName(c.operations, 1, c.store, <<>>))

\* _collect_operations(user_class): the class's own operations by name (as
\* references), the fields they come from, and the objects afterwards.
_collect_operations(fields, order, store) ==
    CollectByName(CollectFields(fields, DeclaredKeys(fields, order), 1,
                                CollectInstances(fields, 1, <<>>, store)))

\* The merge of one inherited operation forgetting the check of its name.
MergeInheritedNoNameCheck(op, ref, method_names, operations) ==
    IF op.method_name \in method_names THEN Fail(ErrInheritedMethodName)
    ELSE [ok |-> TRUE, operations |-> DictSet(operations, op.name, ref)]

\* The merge of one inherited operation dropping it.
MergeInheritedDropped(op, ref, method_names, operations) ==
    IF op.method_name \in method_names THEN Fail(ErrInheritedMethodName)
    ELSE IF op.name \in Keys(operations) THEN Fail(ErrInheritedName)
    ELSE [ok |-> TRUE, operations |-> operations]

\* One iteration of from_class's loop over the parent definition's operations.
MergeInherited(op, ref, method_names, operations) ==
    IF op.method_name \in method_names THEN Fail(ErrInheritedMethodName)
    ELSE IF op.name \in Keys(operations) THEN Fail(ErrInheritedName)
    ELSE [ok |-> TRUE, operations |-> DictSet(operations, op.name, ref)]

\* from_class's loop from the i-th operation of the parent definition; `m`
\* is the state of the loop so far.
RECURSIVE MergeLoop(_, _, _, _, _)
MergeLoop(parent_ops, i, store, method_names, m) ==
    IF i > Len(parent_ops) \/ ~m.ok THEN m
    ELSE MergeLoop(parent_ops, i + 1, store, method_names,
                   MergeInherited(Get(store, [inh |-> parent_ops[i].key]),
                                  [inh |-> parent_ops[i].key], method_names, m.operations))

\* A name -> reference mapping with the objects for the references.
Deref(operations, store) ==
    [i \in DOMAIN operations |->
       [key |-> operations[i].key, value |-> Get(store, operations[i].value)]]

\* The class's own operations as collected, by value.
OwnOf(c) == OpsOf([operations |-> Deref(c.operations, c.store)])

\* method_names = {op.method_name for op in operations.values() if op.method_name}
MethodNames(c) == {op.method_name : op \in Range(OwnOf(c))} \ {"None", ""}

\* from_class's return: `d` is what ServiceDefinition(...) did.
Frozen(c, d) ==
    IF ~d.ok
    THEN [ok |-> FALSE, error |-> d.error, collected |-> TRUE, own |-> OwnOf(c),
          store |-> c.store]
    ELSE [ok |-> TRUE, defn |-> d.defn, collected |-> TRUE, own |-> OwnOf(c),
          fields |-> c.fields, store |-> c.store]

\* from_class after the merge, whose outcome is `m`.
Freeze(c, name, m) ==
    IF ~m.ok
    THEN [ok |-> FALSE, error |-> m.error, collected |-> TRUE, own |-> OwnOf(c),
          store |-> c.store]
    ELSE Frozen(c, NewServiceDefinition(name, Deref(m.operations, c.store)))

\* from_class after _collect_operations, whose outcome is `c`: `parent` is
\* the class's base (the nearest decorated class of its mro) when `inherit`.
Merge(c, inherit, parent, name) ==
    IF ~c.ok
    THEN [ok |-> FALSE, error |-> c.error, collected |-> FALSE, own |-> <<>>,
          store |-> c.store]
    ELSE Freeze(c, name,
                IF inherit
                THEN MergeLoop(parent.defn.operations, 1, c.store, MethodNames(c),
                               [ok |-> TRUE, operations |-> c.operations])
                ELSE [ok |-> TRUE, operations |-> c.operations])

\* ServiceDefinition.from_class(user_class, name)
from_class(fields, order, inherit, parent, name) ==
    Merge(_collect_operations(fields, order, StoreOf(parent)), inherit, parent, name)

\* getattr(cls, n) after the decorator ran, as the name of the operation of
\* cls's definition the attribute is, or "None": the operations set by the
\* decorator's setattr loop, over the Operation objects of the class body,
\* over the attributes of the base class.
AttrsAfter(inherit, parent, r) ==
    [n \in BuildNames |->
       IF n \in Keys(r.defn.operations) THEN n
       ELSE IF n \in Keys(r.fields) THEN Get(r.store, Get(r.fields, n)).name
       ELSE IF inherit THEN parent.attrs[n]
       ELSE "None"]

\* For each operation of the definition, the field that declares it: a
\* field of this class body, or the one recorded with the base class.
FieldOfAfter(inherit, parent, r) ==
    [n \in Keys(r.defn.operations) |->
       IF \E k \in Keys(r.fields) : Get(r.store, Get(r.fields, k)).name = n
       THEN CHOOSE k \in Keys(r.fields) : Get(r.store, Get(r.fields, k)).name = n
       ELSE parent.field_of[n]]

\* The decorator after from_class, whose outcome is `r`.
SetAttributes(inherit, parent, r) ==
    IF ~r.ok THEN r
    ELSE [ok |-> TRUE, collected |-> TRUE, own |-> r.own, store |-> r.store,
          cls |-> [defn |-> r.defn,
                   attrs |-> AttrsAfter(inherit, parent, r),
                   field_of |-> FieldOfAfter(inherit, parent, r),
                   depth |-> IF inherit THEN parent.depth + 1 ELSE 1]]

\* service(cls, name=...): the decorated class, or the exception.
service(fields, order, inherit, parent, name) ==
    IF name # "None" /\ Falsy(name)
    THEN [ok |-> FALSE, error |-> ErrEmptyServiceName, collected |-> FALSE,
          own |-> <<>>, store |-> StoreOf(parent)]
    ELSE SetAttributes(inherit, parent,
             from_class(fields, order, inherit, parent,
                        IF Falsy(name) THEN ClassName ELSE name))

\* The base class with its definition's Operation objects as the store has
\* them.
WithStore(cls, store) ==
    IF cls = Null THEN Null
    ELSE [cls EXCEPT !.defn.operations =
            [i \in DOMAIN @ |-> [key |-> @[i].key, value |-> Get(store, [inh |-> @[i].key])]]]

(***************************************************************************)
(* Service declaration as a state machine.                                 *)
(***************************************************************************)
ExplicitNames == {"None", ""}
MethodNameArgs == {"None", "", "a", "b"}
InstanceTypes == {<<"A", "A">>, <<"None", "None">>}
AnnotatedInstanceTypes == {<<"None", "None">>, <<"B", "A">>}
AnnotationArgs == <<"A", "A">>
Orders == {<<"a", "b">>, <<"b", "a">>}

NewOps(types) ==
    {Op(n, m, t[1], t[2]) : n \in BuildNames, m \in MethodNameArgs, t \in types}

\* What one field of a class body can be.
Forms(parent) ==
    {[value |-> NoValue, ann |-> NoAnnotation],
     [value |-> NoValue, ann |-> [args |-> AnnotationArgs]],
     [value |-> NoValue, ann |-> [args |-> <<>>]],
     [value |-> AliasValue, ann |-> NoAnnotation]}
    \cup {[value |-> [new |-> op], ann |-> NoAnnotation] : op \in NewOps(InstanceTypes)}
    \cup {[value |-> [new |-> op], ann |-> [args |-> AnnotationArgs]] :
              op \in NewOps(AnnotatedInstanceTypes)}
    \cup {[value |-> [reuse |-> n], ann |-> ann] :
              n \in IF parent = Null THEN {} ELSE Keys(parent.defn.operations),
              ann \in {NoAnnotation, [args |-> AnnotationArgs]}}

ClassBodies(parent) == [Range(FieldKeys) -> Forms(parent)]

\* @service(name=...) applied to a new class, which derives from the base
\* class or from no decorated class.
Declare ==
    /\ result = Null
    /\ \E name \in ExplicitNames, fields \in ClassBodies(base), order \in Orders,
          inherit \in IF base = Null THEN {FALSE} ELSE BOOLEAN :
         /\ result' = [name |-> name, fields |-> fields, inherit |-> inherit,
                       before |-> base,
                       effect |-> service(fields, order, inherit, base, name)]
         /\ base' = WithStore(base, result'.effect.store)
    /\ UNCHANGED <<syncVars, bindVars>>

\* Later classes derive from the class just declared.
Derive ==
    /\ result # Null
    /\ result.effect.ok
    /\ result.effect.cls.depth <= MaxBaseDepth
    /\ base' = result.effect.cls
    /\ result' = Null
    /\ UNCHANGED <<syncVars, bindVars>>

\* The program goes on to its next class statement.
Continue ==
    /\ result # Null
    /\ result' = Null
    /\ UNCHANGED <<base, syncVars, bindVars>>

InitBuild == IdleSync /\ IdleBind /\ IdleBuild
NextBuild == Declare \/ Derive \/ Continue
SpecBuild == InitBuild /\ [][NextBuild]_vars

(***************************************************************************)
(* Field declarations: one class deriving from no decorated class, over    *)
(* every declaration form of its fields and every setting of the types.    *)
(***************************************************************************)
TypeArgs == {"None", "A", "B"}
TypedAnnotations == {<<"A", "B">>, <<"B", "A">>}

TypedOps ==
    {Op(n, m, i, o) : n \in BuildNames, m \in MethodNameArgs, i \in TypeArgs, o \in TypeArgs}

TypedForms ==
    {[value |-> NoValue, ann |-> NoAnnotation],
     [value |-> NoValue, ann |-> [args |-> <<>>]],
     [value |-> AliasValue, ann |-> NoAnnotation]}
    \cup {[value |-> NoValue, ann |-> [args |-> t]] : t \in TypedAnnotations}
    \cup {[value |-> [new |-> op], ann |-> NoAnnotation] : op \in TypedOps}
    \cup {[value |-> [new |-> op], ann |-> [args |-> t]] :
              op \in TypedOps, t \in TypedAnnotations}

TypedBodies == [Range(FieldKeys) -> TypedForms]

\* @service(name=...) applied to a new class with no decorated base.
DeclareRoot ==
    /\ result = Null
    /\ base = Null
    /\ \E name \in ExplicitNames, fields \in TypedBodies, order \in Orders :
         result' = [name |-> name, fields |-> fields, inherit |-> FALSE,
                    before |-> Null,
                    effect |-> service(fields, order, FALSE, Null, name)]
    /\ UNCHANGED <<base, syncVars, bindVars>>

InitFields == IdleSync /\ IdleBind /\ IdleBuild
NextFields == DeclareRoot \/ Continue
SpecFields == InitFields /\ [][NextFields]_vars

(***************************************************************************)
(* Class hierarchies: a class statement listing several bases, each a      *)
(* plain class, a decorated class, an undecorated subclass of a decorated  *)
(* class, or a decorated subclass of a decorated class, the bases'         *)
(* hierarchies having no class in common.  `mro` is user_class.mro()[1:].  *)
(***************************************************************************)
MaxParents == 2

\* A class that was never decorated: its __dict__ has no __nexus_service__
\* and no Operation.
Undecorated == [decorated |-> FALSE]

\* get_service_definition(cls), for a class
get_service_definition(cls) == IF "defn" \in DOMAIN cls THEN cls.defn ELSE Null

\* The classes of the mro that carry a definition, in mro order.
DecoratedIn(mro) == SelectSeq(mro, LAMBDA c : get_service_definition(c) # Null)

\* The last definition of the mro taken instead of the first.
FarthestDecorated(mro) ==
    IF DecoratedIn(mro) = <<>> THEN Null ELSE DecoratedIn(mro)[Len(DecoratedIn(mro))]

\* The class of parent_defn := next(parent_defns, None), or Null.
NearestDecorated(mro) ==
    IF DecoratedIn(mro) = <<>> THEN Null ELSE Head(DecoratedIn(mro))

\* getattr through the mro: the first class that has the attribute.
RECURSIVE MroAttr(_, _, _)
MroAttr(mro, i, n) ==
    IF i > Len(mro) THEN "None"
    ELSE IF "attrs" \in DOMAIN mro[i] /\ mro[i].attrs[n] # "None" THEN mro[i].attrs[n]
    ELSE MroAttr(mro, i + 1, n)

\* What the new class has from its bases: the definition from_class merges
\* (with the record of its declaring fields), and the attributes it inherits.
ParentOf(mro) ==
    IF NearestDecorated(mro) = Null THEN Null
    ELSE [NearestDecorated(mro) EXCEPT !.attrs = [n \in BuildNames |-> MroAttr(mro, 1, n)]]

\* The class bodies the ancestors are declared with, and those of the new
\* class.
AncestorForms ==
    {[value |-> NoValue, ann |-> NoAnnotation],
     [value |-> NoValue, ann |-> [args |-> AnnotationArgs]]}
AncestorBodies == [Range(FieldKeys) -> AncestorForms]
HierarchyForms ==
    AncestorForms \cup {[value |-> [new |-> Op("c", "None", "A", "A")], ann |-> NoAnnotation]}
HierarchyBodies == [Range(FieldKeys) -> HierarchyForms]

\* The decorated classes with no decorated base, and the decorated classes
\* deriving from one of them (as the start of the mro they give).
RootClasses ==
    {service(f, FieldKeys, FALSE, Null, "None").cls : f \in AncestorBodies}
ChildLines ==
    UNION {{<<service(f, FieldKeys, TRUE, P, "None").cls, P>> :
              f \in {g \in AncestorBodies : service(g, FieldKeys, TRUE, P, "None").ok}}
           : P \in RootClasses}

\* The linearization of one base, and user_class.mro()[1:] for a list of
\* bases.
BaseLines ==
    {<<Undecorated>>}
    \cup {<<P>> : P \in RootClasses}
    \cup {<<Undecorated, P>> : P \in RootClasses}
    \cup ChildLines
RECURSIVE Concat(_)
Concat(lines) == IF lines = <<>> THEN <<>> ELSE Head(lines) \o Concat(Tail(lines))
Mros == UNION {{Concat(b) : b \in [1..n -> BaseLines]} : n \in 0..MaxParents}

\* The decorated class statement and its outcome.
Decoration(mro, fields, order) ==
    [name |-> "None", fields |-> fields, inherit |-> NearestDecorated(mro) # Null,
     before |-> ParentOf(mro), mro |-> mro,
     effect |-> service(fields, order, NearestDecorated(mro) # Null, ParentOf(mro), "None")]

\* @service applied to a new class with the bases of `mro`.
DeclareSubclass ==
    /\ result = Null
    /\ base = Null
    /\ \E mro \in Mros, fields \in HierarchyBodies, order \in Orders :
         result' = Decoration(mro, fields, order)
    /\ UNCHANGED <<base, syncVars, bindVars>>

InitParents == IdleSync /\ IdleBind /\ IdleBuild
NextParents == DeclareSubclass \/ Continue
SpecParents == InitParents /\ [][NextParents]_vars

(***************************************************************************)
(* Operation objects: the program constructs an Operation, may assign to   *)
(* its name (the dataclass is not frozen), and then uses it as the value   *)
(* of a field of a decorated class or as the descriptor of a handler       *)
(* method a definition is synthesized from.                                *)
(***************************************************************************)
ErrEmptyOperationName == Raise("ValueError", "DefinitionError", "Operation.__post_init__")

\* Operation(...) without the check of the name.
OperationUnchecked(name, method_name, input_type, output_type) ==
    [ok |-> TRUE, op |-> Op(name, method_name, input_type, output_type)]

\* Operation(name=..., method_name=..., input_type=..., output_type=...)
Operation(name, method_name, input_type, output_type) ==
    IF Falsy(name) THEN Fail(ErrEmptyOperationName)
    ELSE [ok |-> TRUE, op |-> Op(name, method_name, input_type, output_type)]

OperationNameArgs == BuildNames \cup {"None", ""}
OperationTypeArgs == {"None", "A"}

\* The class bodies an Operation object is used in: as the value of field
\* "a", with or without an annotation, next to a field "b" that is absent or
\* only annotated.
OperationBodies(op) ==
    {[k \in Range(FieldKeys) |-> IF k = "a" THEN [value |-> [new |-> op], ann |-> ann] ELSE other] :
       ann \in {NoAnnotation, [args |-> AnnotationArgs]}, other \in AncestorForms}

\* The call of the constructor.
NewOperation ==
    /\ result = Null
    /\ hres = Null
    /\ \E name \in OperationNameArgs, method_name \in MethodNameArgs,
          input_type \in OperationTypeArgs, output_type \in OperationTypeArgs :
         result' = [call |-> "Operation",
                    args |-> <<name, method_name, input_type, output_type>>,
                    renamed |-> FALSE,
                    effect |-> Operation(name, method_name, input_type, output_type)]
    /\ UNCHANGED <<base, svc, members, factories, hres, syncVars>>

OperationMade == result # Null /\ "call" \in DOMAIN result /\ result.effect.ok

\* op.name = name, on the constructed object.
Rename ==
    /\ OperationMade
    /\ ~result.renamed
    /\ hres = Null
    /\ \E name \in OperationNameArgs \ {result.effect.op.name} :
         result' = [result EXCEPT !.renamed = TRUE, !.effect.op.name = name]
    /\ UNCHANGED <<base, svc, members, factories, hres, syncVars>>

\* @service applied to a class with the object as the value of a field.
DeclareWith ==
    /\ OperationMade
    /\ \E fields \in OperationBodies(result.effect.op), order \in Orders :
         result' = [name |-> "None", fields |-> fields, inherit |-> FALSE, before |-> Null,
                    made |-> result.effect.op,
                    effect |-> service(fields, order, FALSE, Null, "None")]
    /\ UNCHANGED <<base, svc, members, factories, hres, syncVars>>

\* A definition synthesized from a handler method carrying the object.
SynthesizeWith ==
    /\ OperationMade
    /\ hres = Null
    /\ \E id \in BindMethods :
         hres' = [call |-> "synthesize", service_name |-> "S",
                  user_methods |-> <<[key |-> id, value |-> Decorated(id, result.effect.op)]>>,
                  result |-> service_definition_from_operation_handler_methods(
                                 "S", <<[key |-> id, value |-> Decorated(id, result.effect.op)]>>)]
    /\ UNCHANGED <<base, result, svc, members, factories, syncVars>>

\* The program drops the object and what was built with it.
Discard ==
    /\ result # Null
    /\ result' = Null
    /\ hres' = Null
    /\ UNCHANGED <<base, svc, members, factories, syncVars>>

InitOperations == IdleSync /\ IdleBind /\ IdleBuild
NextOperations == NewOperation \/ Rename \/ DeclareWith \/ SynthesizeWith \/ Discard
SpecOperations == InitOperations /\ [][NextOperations]_vars

(***************************************************************************)
(* Finalizing: ServiceDefinition(name=..., operations=...) called with any *)
(* name and any mapping of Operation objects, complete or not.             *)
(***************************************************************************)
FinalNames == {"S", ""}
FinalOps ==
    {Op(n, m, i, o) : n \in {"a", ""}, m \in {"None", "a", "b"},
                      i \in OperationTypeArgs, o \in OperationTypeArgs}
FinalEntries ==
    UNION {
      {[i \in 1..n |-> [key |-> DefnKeys[i], value |-> v[i]]] : v \in [1..n -> FinalOps]}
      : n \in 0..MaxDefOps}

\* ServiceDefinition(name=..., operations=...)
Finalize ==
    /\ hres = Null
    /\ \E name \in FinalNames, entries \in FinalEntries :
         hres' = [call |-> "ServiceDefinition", name |-> name, entries |-> entries,
                  result |-> NewServiceDefinition(name, entries)]
    /\ UNCHANGED <<svc, members, factories, syncVars, buildVars>>

\* The program goes on after the call.
Forget ==
    /\ hres # Null
    /\ hres' = Null
    /\ UNCHANGED <<svc, members, factories, syncVars, buildVars>>

InitFinal == IdleSync /\ IdleBind /\ IdleBuild
NextFinal == Finalize \/ Forget
SpecFinal == InitFinal /\ [][NextFinal]_vars

(***************************************************************************)
(* Properties.                                                             *)
(***************************************************************************)

\* The subtype relation the classes declare: B is a subclass of A, DG of
\* G[A]; G[A], G[U], A and DG are otherwise unrelated.
DeclaredSubtype(s, t) == s = t \/ <<s, t>> \in {<<"B", "A">>, <<"DG", "GA">>}

Concrete(t) == t \notin {"None", "Any"}

\* The operations of a definition: distinct names, distinct method names,
\* none empty.
WellFormed(defn) ==
    LET ops == OpsOf(defn) IN
    /\ \A i, j \in DOMAIN ops : i # j => ops[i].name # ops[j].name
    /\ \A i, j \in DOMAIN ops : i # j => ops[i].method_name # ops[j].method_name
    /\ \A i \in DOMAIN ops : ~Falsy(ops[i].name) /\ ~Falsy(ops[i].method_name)

\* C1: every ServiceDefinition successfully constructed (here directly, or
\* synthesized from factories) has operations with pairwise distinct names,
\* pairwise distinct method names, and no empty name or method name.
DefinitionInvariant ==
    /\ svc # Null => WellFormed(svc)
    /\ (Stage = "synthesize" /\ Succeeded) => WellFormed(hres.result.defn)

\* The definition operation and the handler operation of a variance check.
VarianceCall == Stage = "validate" /\ Len(svc.operations) = 1 /\ Len(hres.user_methods) = 1
DefnOp == OpsOf(svc)[1]
HandlerOp == get_operation_factory(hres.user_methods[1].value)[2]
TypeErrorRaised == ~hres.result.ok /\ hres.result.error.py = "TypeError"

\* C4: with concrete input types (and equal output types), validate accepts
\* the handler iff its input type is the definition's or a supertype of it,
\* and otherwise fails with the type error.
InputContravariance ==
    (/\ VarianceCall
     /\ Concrete(DefnOp.input_type) /\ Concrete(HandlerOp.input_type)
     /\ HandlerOp.output_type = DefnOp.output_type)
    => IF DeclaredSubtype(DefnOp.input_type, HandlerOp.input_type)
       THEN hres.result.ok
       ELSE TypeErrorRaised

\* C5: with concrete output types (and equal input types), validate accepts
\* the handler iff its output type is the definition's or a subtype of it,
\* and otherwise fails with the type error.
OutputCovariance ==
    (/\ VarianceCall
     /\ Concrete(DefnOp.output_type) /\ Concrete(HandlerOp.output_type)
     /\ HandlerOp.input_type = DefnOp.input_type)
    => IF DeclaredSubtype(HandlerOp.output_type, DefnOp.output_type)
       THEN hres.result.ok
       ELSE TypeErrorRaised

\* The definition operations without a factory under their method name.
Unmatched(i) == OpsOf(svc)[i].method_name \notin Keys(hres.user_methods)
SomeUnmatched == \E i \in DOMAIN svc.operations : Unmatched(i)
FirstUnmatched ==
    CHOOSE i \in DOMAIN svc.operations :
        Unmatched(i) /\ \A j \in 1..(i - 1) : ~Unmatched(j)

\* C6 as stated: validate fails with MissingImplementationError whenever some
\* definition operation has no factory, and succeeds only if all are matched.
MissingAlwaysReported ==
    Stage = "validate" =>
      /\ SomeUnmatched =>
           ~hres.result.ok /\ hres.result.error.kind = "MissingImplementationError"
      /\ hres.result.ok => ~SomeUnmatched

\* C6 amended: validate fails whenever some definition operation has no
\* factory; the error is MissingImplementationError for the first such
\* operation, unless an operation before it in the definition's order fails
\* one of its own checks, whose error is raised instead.
MissingReportedInOrder ==
    Stage = "validate" =>
      /\ SomeUnmatched =>
           /\ ~hres.result.ok
           /\ LET e == hres.result.error
                  ops == OpsOf(svc)
              IN \/ /\ e.kind = "MissingImplementationError"
                    /\ e.op = ops[FirstUnmatched].method_name
                 \/ /\ e.kind # "MissingImplementationError"
                    /\ \E j \in 1..(FirstUnmatched - 1) : ops[j].method_name = e.op
      /\ hres.result.ok => ~SomeUnmatched

\* A validate call that reported the second operation missing after the
\* first one passed.
MissingReportedWitness ==
    /\ Stage = "validate"
    /\ SomeUnmatched /\ FirstUnmatched = 2
    /\ ~hres.result.ok /\ hres.result.error.kind = "MissingImplementationError"

\* The qualifying members of the handler class and their operations.
Qualifies(i) == get_operation_factory(members[i].value)[2] # Null
MemberOp(i) == get_operation_factory(members[i].value)[2]
AcceptableNames ==
    {o.method_name : o \in Range(OpsOf(hres.service))} \ {"None"}
NotInDefinition(i) == Qualifies(i) /\ MemberOp(i).method_name \notin AcceptableNames
RepeatsName(i) ==
    Qualifies(i) /\ \E j \in 1..(i - 1) : Qualifies(j) /\ MemberOp(j).name = MemberOp(i).name
Alphabetical(names, S) ==
    /\ Range(names) = S
    /\ \A i, j \in DOMAIN names : i < j => Rank(names[i]) < Rank(names[j])
CollectWithDefinition == Stage = "collect" /\ hres.service # Null

\* C7 as stated: with a definition, collect fails with ConfigurationError,
\* listing the acceptable method names alphabetically, for any qualifying
\* member whose method name is not the definition's; on success every key is.
UnknownMethodAlwaysConfigurationError ==
    CollectWithDefinition =>
      /\ (\E i \in DOMAIN members : NotInDefinition(i)) =>
           /\ ~hres.result.ok
           /\ hres.result.error.kind = "ConfigurationError"
           /\ Alphabetical(hres.result.error.names, AcceptableNames)
      /\ hres.result.ok => Keys(factories) \subseteq AcceptableNames

\* C7 amended: such a member makes collect fail with ConfigurationError
\* listing the acceptable names alphabetically, unless that member or an
\* earlier one repeats an operation name already seen, which fails with
\* DefinitionError first; on success every key is a definition method name.
UnknownMethodReportedInOrder ==
    CollectWithDefinition =>
      /\ (\E i \in DOMAIN members : NotInDefinition(i)) =>
           /\ ~hres.result.ok
           /\ LET e == hres.result.error IN
              \/ /\ e.kind = "ConfigurationError"
                 /\ Alphabetical(e.names, AcceptableNames)
              \/ /\ e.kind = "DefinitionError"
                 /\ \E i \in DOMAIN members :
                      RepeatsName(i) /\ \A j \in 1..(i - 1) : ~NotInDefinition(j)
      /\ hres.result.ok => Keys(factories) \subseteq AcceptableNames

\* A collect that rejected a member and listed two acceptable names.
UnknownMethodWitness ==
    /\ CollectWithDefinition
    /\ \E i \in DOMAIN members : NotInDefinition(i)
    /\ ~hres.result.ok /\ hres.result.error.kind = "ConfigurationError"
    /\ Len(hres.result.error.names) = 2

\* C8: every fetch_info, fetch_result and cancel call on the sync handler,
\* wherever in the sequence of calls, raises the unsupported-operation error,
\* returns nothing and leaves the handler as it was.
SyncFetchCancelUnsupported ==
    \A i \in DOMAIN trace :
      trace[i].call \in {"fetch_info", "fetch_result", "cancel"} =>
        /\ trace[i].effect.raised
        /\ trace[i].effect.error.kind = "UnsupportedOperationError"
        /\ trace[i].effect.error.py = "NotImplementedError"
        /\ trace[i].effect.self = trace[i].before

\* fetch_result after a start that returned, and cancel after one that raised.
SyncFetchCancelWitness ==
    \E i, j \in DOMAIN trace :
      /\ i < j
      /\ trace[i].call = "start"
      /\ trace[j].call \in {"fetch_info", "fetch_result", "cancel"}
      /\ trace[j].token = "t2"

\* C9: a start call that completes returns the Sync variant carrying the
\* value the wrapped function returned; if the wrapped function raised,
\* start raises that error and returns nothing.
SyncStartReturnsSync ==
    \A i \in DOMAIN trace :
      trace[i].call = "start" =>
        IF trace[i].wrapped.ok
        THEN /\ ~trace[i].effect.raised
             /\ trace[i].effect.value = [variant |-> "Sync", value |-> trace[i].wrapped.value]
        ELSE /\ trace[i].effect.raised
             /\ trace[i].effect.error = trace[i].wrapped.error

\* Two starts, one returning for input "there" and one raising.
SyncStartWitness ==
    \E i, j \in DOMAIN trace :
      /\ trace[i].call = "start" /\ trace[i].input = "there" /\ ~trace[i].effect.raised
      /\ trace[j].call = "start" /\ trace[j].effect.raised

\* A class statement deriving from the base class whose own operations were
\* collected; the base's operations before it, and its own.
SubclassDeclared == result # Null /\ result.inherit /\ result.effect.collected
ParentOps == Range(OpsOf(result.before.defn))
OwnOps == Range(result.effect.own)
Collides ==
    \E p \in ParentOps, o \in OwnOps : p.method_name = o.method_name \/ p.name = o.name
Built == result.effect.cls.defn

OwnValid ==
    LET own == result.effect.own IN
    /\ \A i \in DOMAIN own :
         ~Falsy(own[i].name) /\ ~Falsy(own[i].method_name)
         /\ ~Falsy(own[i].input_type) /\ ~Falsy(own[i].output_type)
    /\ \A i, j \in DOMAIN own : i # j => own[i].method_name # own[j].method_name

\* C3: when a subclass's own operations (complete, as collected) have names
\* and method names all disjoint from the parent's, building succeeds and the
\* definition holds exactly its own operations and the parent's, each as it
\* was.
DisjointSubclassInherits ==
    (SubclassDeclared /\ OwnValid /\ ~Collides) =>
      /\ result.effect.ok
      /\ Range(OpsOf(Built)) = OwnOps \cup ParentOps
      /\ Len(Built.operations) = Len(result.effect.own) + Len(result.before.defn.operations)
      /\ \A o \in OwnOps \cup ParentOps : Get(Built.operations, o.name) = o

\* A subclass built with an operation of its own next to an inherited one.
DisjointSubclassWitness ==
    /\ SubclassDeclared /\ OwnValid /\ ~Collides
    /\ result.effect.ok
    /\ OwnOps # {} /\ ParentOps # {}

\* C10: after a class is declared, every operation of its definition,
\* inherited ones included, is the attribute of the class named as the field
\* that declares the operation.
OperationsAccessibleByField ==
    (result # Null /\ result.effect.ok) =>
      LET cls == result.effect.cls
      IN \A n \in DOMAIN cls.field_of : cls.attrs[cls.field_of[n]] = n

\* A synthesize call, and the descriptor its i-th factory carries (or Null).
SynthCall == Stage = "synthesize"
Descriptor(i) == get_operation_factory(hres.user_methods[i].value)[2]
AllCarry == \A i \in DOMAIN hres.user_methods : Descriptor(i) # Null
DistinctNames ==
    \A i, j \in DOMAIN hres.user_methods : i # j => Descriptor(i).name # Descriptor(j).name
Synthesized == hres.result.defn

\* C11 as stated: synthesize fails with ConfigurationError if a factory
\* carries no descriptor; the definition it returns is named serviceName
\* and its operations are exactly the factories' descriptors, one per factory.
SynthesizeOnePerFactory ==
    SynthCall =>
      /\ ~AllCarry => ~hres.result.ok /\ hres.result.error.kind = "ConfigurationError"
      /\ hres.result.ok =>
           /\ Synthesized.name = hres.service_name
           /\ Len(Synthesized.operations) = Len(hres.user_methods)
           /\ \A i \in DOMAIN hres.user_methods : OpsOf(Synthesized)[i] = Descriptor(i)

\* C11 amended: synthesize fails with ConfigurationError if a factory carries
\* no descriptor and otherwise only with the validator's DefinitionError; the
\* definition it returns is named serviceName and holds, under each
\* descriptor name, the descriptor of the last factory carrying that name and
\* nothing else: one operation per factory, in the factories' order, when
\* the descriptors' names are pairwise distinct.
SynthesizeByName ==
    SynthCall =>
      /\ ~AllCarry => ~hres.result.ok /\ hres.result.error.kind = "ConfigurationError"
      /\ (AllCarry /\ ~hres.result.ok) => hres.result.error.kind = "DefinitionError"
      /\ hres.result.ok =>
           /\ Synthesized.name = hres.service_name
           /\ Keys(Synthesized.operations) =
                  {Descriptor(i).name : i \in DOMAIN hres.user_methods}
           /\ \A i \in DOMAIN hres.user_methods :
                (\A j \in DOMAIN hres.user_methods :
                    j > i => Descriptor(j).name # Descriptor(i).name)
                => Get(Synthesized.operations, Descriptor(i).name) = Descriptor(i)
           /\ \A e \in Range(Synthesized.operations) : e.key = e.value.name
           /\ DistinctNames =>
                /\ Len(Synthesized.operations) = Len(hres.user_methods)
                /\ \A i \in DOMAIN hres.user_methods : OpsOf(Synthesized)[i] = Descriptor(i)

\* A definition synthesized from two factories carrying operations a and b.
SynthesizeWitness ==
    /\ SynthCall /\ hres.result.ok
    /\ Len(hres.user_methods) = 2
    /\ Keys(Synthesized.operations) = {"a", "b"}

\* A class statement that was decorated, and the one whose definition was built.
Declared == result # Null
DeclaredOk == result # Null /\ result.effect.ok
AnnotationOnly(k) == result.fields[k].value = NoValue /\ result.fields[k].ann # NoAnnotation

\* C12: in a built definition, every field declared only by the annotation
\* Operation[I, O] is the operation under the field's name, with name and
\* method_name the field name, input_type I and output_type O.
AnnotationOnlyYieldsOperation ==
    DeclaredOk =>
      \A k \in Range(FieldKeys) :
        AnnotationOnly(k) =>
          /\ k \in Keys(Built.operations)
          /\ Get(Built.operations, k) =
               Op(k, k, result.fields[k].ann.args[1], result.fields[k].ann.args[2])

\* A definition built from a: Operation[A, B] and b: Operation[B, A].
AnnotationOnlyWitness ==
    /\ DeclaredOk
    /\ AnnotationOnly("a") /\ result.fields["a"].ann.args = <<"A", "B">>
    /\ AnnotationOnly("b") /\ result.fields["b"].ann.args = <<"B", "A">>

\* What a field declares: an operation, by an instance or by an annotation
\* with two type parameters, and the name it declares it under.
DeclaresOperation(k) ==
    /\ result.fields[k].value # AliasValue
    /\ result.fields[k].value # NoValue \/ result.fields[k].ann # NoAnnotation
    /\ result.fields[k].ann # NoAnnotation => Len(result.fields[k].ann.args) = 2
DeclaredName(k) ==
    IF result.fields[k].value # NoValue THEN result.fields[k].value.new.name ELSE k
SameNameTwice ==
    /\ Declared
    /\ DeclaresOperation("a") /\ DeclaresOperation("b")
    /\ DeclaredName("a") = DeclaredName("b")

\* The checks _collect_operations makes of one field by itself: an explicit
\* method name of an instance-only field is the field's name, the types set
\* on an annotated instance are the annotation's.
FieldChecksPass(k) ==
    LET f == result.fields[k] IN
    IF f.value = NoValue THEN TRUE
    ELSE IF f.ann = NoAnnotation
    THEN Falsy(f.value.new.method_name) \/ f.value.new.method_name = k
    ELSE /\ Falsy(f.value.new.input_type) \/ f.value.new.input_type = f.ann.args[1]
         /\ Falsy(f.value.new.output_type) \/ f.value.new.output_type = f.ann.args[2]

FinalizedDefinitionUnchanged ==
    (result # Null /\ result.before # Null) =>
      /\ base.defn = result.before.defn
      /\ base = result.before

\* A class built with a field whose value is an Operation of the base
\* class's definition.
ReusedOperationWitness ==
    /\ result # Null /\ result.before # Null
    /\ result.effect.ok
    /\ \E k \in Range(FieldKeys) :
         /\ result.fields[k].value # NoValue /\ result.fields[k].value # AliasValue
         /\ "reuse" \in DOMAIN result.fields[k].value

\* A class declared with bases, its decorated ancestors and the operations
\* of the nearest of them.
HierarchyDeclared == result # Null /\ "mro" \in DOMAIN result
DecoratedAncestors == Range(DecoratedIn(result.mro))
CarriesDefinition(i) == "defn" \in DOMAIN result.mro[i]
NearestOps ==
    IF \A i \in DOMAIN result.mro : ~CarriesDefinition(i) THEN {}
    ELSE LET n == CHOOSE i \in DOMAIN result.mro :
                    CarriesDefinition(i) /\ \A j \in 1..(i - 1) : ~CarriesDefinition(j)
         IN Range(OpsOf(result.mro[n].defn))
CollidesWithNearest ==
    \E p \in NearestOps, o \in OwnOps : p.method_name = o.method_name \/ p.name = o.name

\* C15: the operations of a built definition are the class's own operations
\* together with those of the definition of every decorated ancestor.
UnionOfDecoratedAncestors ==
    (HierarchyDeclared /\ result.effect.ok) =>
      Range(OpsOf(Built)) =
        OwnOps \cup UNION {Range(OpsOf(c.defn)) : c \in DecoratedAncestors}

OperationCall == result # Null /\ "call" \in DOMAIN result
UsedInClass == result # Null /\ "made" \in DOMAIN result
UsedInHandler == hres # Null /\ hres.call = "synthesize"

\* C16: Operation(...) with an empty (or no) name raises the ValueError that
\* is a DefinitionError and with any other name gives the Operation of its
\* arguments; every Operation that the scan of a class creates has the name
\* of its field, every other collected Operation is the program's object,
\* and no operation of a built or synthesized definition has an empty name.
EmptyOperationNameRejected ==
    /\ (OperationCall /\ ~result.renamed) =>
         IF Falsy(result.args[1])
         THEN ~result.effect.ok /\ result.effect.error = ErrEmptyOperationName
              /\ result.effect.error.kind = "DefinitionError"
         ELSE result.effect.ok
              /\ result.effect.op = Op(result.args[1], result.args[2], result.args[3], result.args[4])
    /\ UsedInClass =>
         /\ \A o \in Range(result.effect.own) :
              IF o.name = result.made.name THEN TRUE ELSE ~Falsy(o.name) /\ o.name \in Range(FieldKeys)
         /\ result.effect.ok => \A o \in Range(OpsOf(result.effect.cls.defn)) : ~Falsy(o.name)
    /\ (UsedInClass /\ ~Falsy(result.made.name)) =>
         \A o \in Range(result.effect.own) : ~Falsy(o.name)
    /\ (UsedInHandler /\ hres.result.ok) =>
         \A o \in Range(OpsOf(hres.result.defn)) : ~Falsy(o.name)

\* The constructor has refused an empty name.
EmptyOperationNameWitness ==
    OperationCall /\ result.args[1] = "" /\ ~result.effect.ok

\* A field whose value is an Operation constructed with a method name that
\* is not the field's name.
OtherMethodName(k) ==
    /\ DeclaresOperation(k)
    /\ result.fields[k].value # NoValue
    /\ ~Falsy(result.fields[k].value.new.method_name)
    /\ result.fields[k].value.new.method_name # k

\* C17: in every declaration form a class with a field whose Operation was
\* given a method name other than the field's name fails to build, and in a
\* built definition the operation of every field has the field's name as
\* its method_name.
MethodNameIsFieldName ==
    Declared =>
      /\ \A k \in Range(FieldKeys) : OtherMethodName(k) => ~result.effect.ok
      /\ result.effect.ok =>
           \A k \in Range(FieldKeys) :
             DeclaresOperation(k) => Get(Built.operations, DeclaredName(k)).method_name = k

\* A field declared as `k: Operation[I, O] = Operation(...)`, a type set on
\* its instance that is not the annotation's, and the other fields by
\* themselves in order.
BothForms(k) ==
    /\ result.fields[k].value # NoValue /\ result.fields[k].value # AliasValue
    /\ result.fields[k].ann # NoAnnotation /\ Len(result.fields[k].ann.args) = 2
InputDiffers(k) ==
    /\ ~Falsy(result.fields[k].value.new.input_type)
    /\ result.fields[k].value.new.input_type # result.fields[k].ann.args[1]
OutputDiffers(k) ==
    /\ ~Falsy(result.fields[k].value.new.output_type)
    /\ result.fields[k].value.new.output_type # result.fields[k].ann.args[2]
Absent(k) == result.fields[k].value = NoValue /\ result.fields[k].ann = NoAnnotation
OtherFieldsPass(k) ==
    \A j \in Range(FieldKeys) \ {k} : Absent(j) \/ (DeclaresOperation(j) /\ FieldChecksPass(j))

Finalized == hres # Null /\ hres.call = "ServiceDefinition"
Lacking ==
    {<<i, f>> \in (DOMAIN hres.entries) \X {"name", "method_name", "input_type", "output_type"} :
       Falsy(hres.entries[i].value[f])}
Repeating ==
    {i \in DOMAIN hres.entries :
       \E j \in 1..(i - 1) : hres.entries[j].value.method_name = hres.entries[i].value.method_name}
ProblemCount ==
    Cardinality(Lacking) + Cardinality(Repeating) + (IF Falsy(hres.name) THEN 1 ELSE 0)
ProblemTexts ==
    {"no name" : p \in {q \in Lacking : q[2] = "name"}}
    \cup {"no method name" : p \in {q \in Lacking : q[2] = "method_name"}}
    \cup {"no input type" : p \in {q \in Lacking : q[2] = "input_type"}}
    \cup {"no output type" : p \in {q \in Lacking : q[2] = "output_type"}}
    \cup {"method name not unique" : i \in Repeating}
    \cup (IF Falsy(hres.name) THEN {"no service name"} ELSE {})

\* C20: ServiceDefinition(...) succeeds exactly when its name and operations
\* have no problem, and otherwise raises one DefinitionError that lists
\* every problem, one entry for each.
AggregateErrorListsAll ==
    Finalized =>
      /\ hres.result.ok <=> ProblemCount = 0
      /\ ~hres.result.ok =>
           /\ hres.result.error.kind = "DefinitionError"
           /\ Len(hres.result.error.errors) = ProblemCount
           /\ Range(hres.result.error.errors) = ProblemTexts

\* A definition refused for a repeated method name together with missing
\* fields.
AggregateErrorWitness ==
    /\ Finalized /\ ~hres.result.ok
    /\ Repeating # {} /\ Cardinality(Lacking) >= 2
    /\ Len(hres.result.error.errors) >= 3

\* A validate call; the descriptor of the factory found under the method
\* name of the i-th definition operation, and whether its name is neither
\* its own method name nor that operation's name.
ValidateCall == Stage = "validate"
Matched(i) ==
    /\ ~Unmatched(i)
    /\ get_operation_factory(Get(hres.user_methods, OpsOf(svc)[i].method_name))[2] # Null
MatchedOp(i) == get_operation_factory(Get(hres.user_methods, OpsOf(svc)[i].method_name))[2]
Renames(i) ==
    /\ Matched(i)
    /\ MatchedOp(i).name # MatchedOp(i).method_name
    /\ MatchedOp(i).name # OpsOf(svc)[i].name
FirstRenaming ==
    CHOOSE i \in DOMAIN svc.operations : Renames(i) /\ \A j \in 1..(i - 1) : ~Renames(j)

Passes(i) ==
    /\ Matched(i)
    /\ ~Renames(i)
    /\ InputCheck(MatchedOp(i), OpsOf(svc)[i]) = "ok"
    /\ OutputCheck(MatchedOp(i), OpsOf(svc)[i]) = "ok"
AllPass == \A i \in DOMAIN svc.operations : Passes(i)
ExtraKeys ==
    Keys(hres.user_methods) \ {OpsOf(svc)[i].method_name : i \in DOMAIN svc.operations}

\* C22: when every operation of the definition is matched and passes its
\* checks, validate fails with ConfigurationError 'implements more operations
\* than the interface', naming the extra entries in alphabetical order, if
\* the map has an entry under a method name of no operation of the
\* definition, and succeeds if it has none.
ExtraFactoryRejected ==
    (ValidateCall /\ AllPass) =>
      IF ExtraKeys # {}
      THEN /\ ~hres.result.ok
           /\ hres.result.error.kind = "ConfigurationError"
           /\ hres.result.error.at = "validate: implements more operations"
           /\ Alphabetical(hres.result.error.names, ExtraKeys)
      ELSE hres.result.ok

\* A validate that matched every operation and then refused an extra entry.
ExtraFactoryWitness ==
    /\ ValidateCall /\ AllPass
    /\ Len(svc.operations) >= 1
    /\ Cardinality(ExtraKeys) >= 1
    /\ ~hres.result.ok /\ hres.result.error.kind = "ConfigurationError"

\* What collect returns for the handler class and the definition, and a
\* validate call made with the map it returned.
CollectedFor == collect_operation_handler_factories_by_method_name(
                    [i \in DOMAIN members |-> members[i].value], svc)
ValidateCollected ==
    /\ ValidateCall
    /\ CollectedFor.ok
    /\ hres.user_methods = CollectedFor.factories
ExtraReported ==
    ~hres.result.ok /\ hres.result.error.at = "validate: implements more operations"

\* C24: validate, called with the map that collect returned for the same
\* handler class and definition, never fails with 'implements more
\* operations than the interface'.
ExtraUnreachableAfterCollect ==
    ValidateCollected => ~ExtraReported

\* A validate of a collected map with a factory in it, for a definition
\* with more operations than the handler has.
ExtraUnreachableWitness ==
    /\ ValidateCollected
    /\ Len(hres.user_methods) = 1
    /\ Len(svc.operations) = 2
    /\ ~hres.result.ok

\* What collect returns for the handler class without a definition, and a
\* validate of the map it returned against the definition synthesized from
\* that map.
CollectedAlone == collect_operation_handler_factories_by_method_name(
                      [i \in DOMAIN members |-> members[i].value], Null)
SelfValidation ==
    /\ Stage = "validate synthesized"
    /\ CollectedAlone.ok
    /\ hres.user_methods = CollectedAlone.factories

\* C25: the map collect returns without a definition validates against the
\* definition synthesized from it, whenever that definition is synthesized.
HandlerValidatesAgainstOwnDefinition ==
    SelfValidation => hres.result.ok

\* A handler with two factories, one with an operation name that is not its
\* method name, validated against its own definition.
SelfValidationWitness ==
    /\ SelfValidation
    /\ Len(hres.user_methods) = 2
    /\ \E i \in DOMAIN hres.user_methods :
         get_operation_factory(hres.user_methods[i].value)[2].name # hres.user_methods[i].key
    /\ hres.result.ok

\* A collect that returned, and the factories of the qualifying members.
CollectReturned == Stage = "collect" /\ Succeeded
QualifyingFactories ==
    {get_operation_factory(members[i].value)[1] : i \in {j \in DOMAIN members : Qualifies(j)}}

\* C26: the map collect returns has exactly one entry for each qualifying
\* member of the handler class, holding that member's factory.
OneEntryPerQualifyingMember ==
    CollectReturned =>
      /\ Len(factories) = Cardinality({i \in DOMAIN members : Qualifies(i)})
      /\ {factories[i].value : i \in DOMAIN factories} = QualifyingFactories

\* A definition whose operations all have both types, and a descriptor that
\* lacks one.
Typed(defn) ==
    \A o \in Range(OpsOf(defn)) : ~Falsy(o.input_type) /\ ~Falsy(o.output_type)
Untyped(i) == Falsy(Descriptor(i).input_type) \/ Falsy(Descriptor(i).output_type)
LastOfItsName(i) ==
    \A j \in DOMAIN hres.user_methods : j > i => Descriptor(j).name # Descriptor(i).name

====
